---- MODULE Spec2Model ----
(***************************************************************************)
(* Model of the backend of FP-PBKK: AuthService (register, login,          *)
(* refreshToken, logout), JwtStrategy (bearer access-token validation),    *)
(* PostsController and PostsService (posts and replies), the global        *)
(* ValidationPipe and MailService (notifications).                         *)
(*                                                                         *)
(* Every handler is one atomic action: one request served from its guard   *)
(* to its response.  Time is a clock in seconds, the unit of the iat and   *)
(* exp claims of a JWT.  E-mails, passwords, titles and contents are       *)
(* numbered strings; a password is at most 72 bytes long.                  *)
(***************************************************************************)
EXTENDS Integers, Sequences, FiniteSets, TLC

\* ------------------------------------------------------------------ bounds
NumEmails    == 2      \* e-mail addresses clients use
NumPasswords == 2      \* passwords clients use
MaxUsers     == 2      \* rows of the User table
MaxTicks     == 1      \* clock advances in one behaviour
MaxPosts     == 2      \* posts ever created (post ids are never reused)
MaxReplies   == 1      \* replies ever created (reply ids are never reused)
NumTitles    == 1      \* distinct titles in request bodies
MaxPage      == 3      \* largest page number asked of the list
MaxCalls     == 2      \* requests served side by side in one behaviour
MaxThreadReplies == 2  \* replies ever created while requests run side by side

\* ------------------------------------------------------- program constants
AccessTtl      == 900       \* expiresIn: '15m'
RefreshTtl     == 604800    \* expiresIn: '7d'
BcryptMaxBytes == 72        \* bcrypt reads at most 72 bytes of its input
JwtHeaderChars == 37        \* base64url({"alg":"HS256","typ":"JWT"}) and "."
SubOffset      == 8         \* payload bytes before the id: {"sub":"
IatMinOffset   == 27        \* payload bytes before iat, at least:
                            \* {"sub":"","email":"","iat":
TestTake       == 3         \* findMany({ take: 3 })

Emails    == 1..NumEmails
Passwords == 1..NumPasswords
Titles    == 1..NumTitles
Contents  == {1}
Names     == {1}
TickSteps == {1, AccessTtl, RefreshTtl}

NULL == 0     \* no user, no id (ids start at 1)

VARIABLES
  users,                \* User table: sequence of records, id = position
  jwtRefreshSecretSet,  \* is process.env.JWT_REFRESH_SECRET defined
  jwtModuleSecret,      \* the secret the JwtModule was registered with
  now,                  \* clock, seconds
  ticks,                \* number of clock advances so far
  issued,               \* token pairs handed to clients: [sub, email, iat]
  posts,                \* Post table: id -> record
  nextPostId,           \* next id of the Post table
  replies,              \* Reply table: id -> record
  nextReplyId,          \* next id of the Reply table
  transporter,          \* MailService.transporter
  mails,                \* notifications handed to MailService, by key
  calls,                \* requests being served, by order of arrival
  last                  \* the request served last and its response

authVars == <<users, jwtRefreshSecretSet, jwtModuleSecret, now, ticks, issued>>
postVars == <<posts, nextPostId, replies, nextReplyId>>
mailVars == <<transporter, mails>>
vars     == <<users, jwtRefreshSecretSet, jwtModuleSecret, now, ticks, issued,
              posts, nextPostId, replies, nextReplyId, transporter, mails, calls,
              last>>

\* ------------------------------------------------------------- JWT strings
\* The access secret is the same expression where it signs and where it
\* verifies.  The refresh secret has a default only where it signs:
\* verify(token, {secret: undefined}) falls back to the secret the JwtModule
\* was registered with, which is the access secret, the default refresh
\* secret or none ("undefined": verify throws).
AccessSecret      == "JWT_SECRET"
RefreshSignSecret ==
  IF jwtRefreshSecretSet THEN "JWT_REFRESH_SECRET" ELSE "your-refresh-secret-key"
ModuleSecrets == {AccessSecret, "your-refresh-secret-key", "undefined"}
RefreshVerifySecret ==
  IF jwtRefreshSecretSet THEN "JWT_REFRESH_SECRET" ELSE jwtModuleSecret

Token(secret, sub, email, iat, ttl) ==
  [secret |-> secret, sub |-> sub, email |-> email, iat |-> iat, exp |-> iat + ttl]

NoToken == [secret |-> "none", sub |-> NULL, email |-> NULL, iat |-> 0, exp |-> 0]

\* generateTokens(userId, email) at time t.  Signing is deterministic: the
\* same payload in the same second gives the same token.
generateAccessToken(userId, email, t)  ==
  Token(AccessSecret, userId, email, t, AccessTtl)
generateRefreshToken(userId, email, t) ==
  Token(RefreshSignSecret, userId, email, t, RefreshTtl)

Pair(userId, email, t) == [sub |-> userId, email |-> email, iat |-> t]
AccessTokenOf(p)  == generateAccessToken(p.sub, p.email, p.iat)
RefreshTokenOf(p) == generateRefreshToken(p.sub, p.email, p.iat)

\* jsonwebtoken verify: the signature was made with this secret and the
\* token has not expired (it has as soon as the clock reaches exp)
JwtVerify_IgnoreExpiration(tok, secret, t) == tok.secret = secret
JwtVerify_ValidAtExp(tok, secret, t) == tok.secret = secret /\ t <= tok.exp
JwtVerify(tok, secret, t) == tok.secret = secret /\ t < tok.exp

\* The characters of the compact JWT, header.payload.signature, as chunks
\* with the position of the first base64url character that carries the
\* chunk.  Payload byte k starts in character JwtHeaderChars + (8k div 6).
\* The payload is {"sub":..,"email":..,"iat":..,"exp":..}.
B64Start(k) == JwtHeaderChars + ((8 * k) \div 6)
JwtString(tok) ==
  << [v |-> <<"alg", "HS256", "typ", "JWT">>, start |-> 0],
     [v |-> <<"sub", tok.sub, "email", tok.email>>, start |-> B64Start(SubOffset)],
     [v |-> <<"iat", tok.iat, "exp", tok.exp>>, start |-> B64Start(IatMinOffset)],
     [v |-> <<"signature", tok.secret, tok.sub, tok.email, tok.iat, tok.exp>>,
      start |-> B64Start(IatMinOffset) + 1] >>

PasswordString(p) == << [v |-> <<"password", p>>, start |-> 0] >>

\* ------------------------------------------------------------------ bcrypt
\* bcrypt.hash(s, 10): a salted one-way digest of the first 72 bytes of s.
\* The salt does not change what compare answers, so the digest is
\* represented by the bytes it was computed from.
BcryptInput(s) == SelectSeq(s, LAMBDA c : c.start < BcryptMaxBytes)
BcryptHash(s)  == [digest |-> BcryptInput(s)]
BcryptCompare(s, hash) == BcryptInput(s) = hash.digest
NullHash == [digest |-> << >>]     \* a null refreshToken column

\* ---------------------------------------------------------------- database
UserIds == 1..Len(users)

\* db.user.findUnique({where: {email}})
FindUserByEmail_Never(email) == NULL
FindUserByEmail(email) ==
  IF \E u \in UserIds : users[u].email = email
  THEN CHOOSE u \in UserIds : users[u].email = email
  ELSE NULL

\* db.user.findUnique({where: {id}})
FindUserById(id) == IF id \in UserIds THEN id ELSE NULL

\* updateRefreshToken: store the hash of the new refresh token
updateRefreshToken(us, userId, refreshToken) ==
  [us EXCEPT ![userId].refreshToken = BcryptHash(JwtString(refreshToken))]

\* db.post.delete / db.reply.delete
Without_Nothing(table, ids) == table
Without(table, ids) == [i \in DOMAIN table \ ids |-> table[i]]

\* The request served last.  status and msg are the response; op, user (the
\* account or the acting user, NULL if none), tok (the credential sent) and
\* arg (body or route parameter) describe the request.
NoBody == [none |-> TRUE]
Outcome(status, msg) == [status |-> status, msg |-> msg]
ResponseWith(op, status, msg, user, tok, arg, body) ==
  [op |-> op, status |-> status, msg |-> msg, user |-> user, tok |-> tok,
   arg |-> arg, body |-> body]
Response(op, status, msg, user, tok, arg) ==
  ResponseWith(op, status, msg, user, tok, arg, NoBody)

\* ---------------------------------------------------- prisma-error.handler
\* A value a try block throws: class is what instanceof tells apart, code
\* and target (meta.target) are read from a PrismaClientKnownRequestError,
\* status and message from an HttpException.
NoTarget == "undefined"
Thrown(class, code, target, status, message) ==
  [class |-> class, code |-> code, target |-> target, status |-> status,
   message |-> message]
KnownRequestError(code, target) ==
  Thrown("PrismaClientKnownRequestError", code, target, 0, "")
HttpException(message, status) ==
  Thrown("HttpException", "", NoTarget, status, message)
OtherError(class, code) == Thrown(class, code, NoTarget, 0, "")
NoError == Thrown("none", "", NoTarget, 0, "")

\* handlePrismaError(error): never, the value is what it throws
handlePrismaError_ByCodeOnly(error) ==
  CASE error.code = "P2002" ->
         HttpException("Duplicate field value: " \o error.target, 409)
    [] error.code = "P2025" -> HttpException("Record not found", 404)
    [] error.code = "P2003" -> HttpException("Foreign key constraint failed", 400)
    [] OTHER -> HttpException("Database error occurred", 500)
handlePrismaError_Rethrows(error) == error
handlePrismaError(error) ==
  IF error.class = "PrismaClientKnownRequestError"
  THEN CASE error.code = "P2002" ->
              HttpException("Duplicate field value: " \o error.target, 409)
         [] error.code = "P2025" -> HttpException("Record not found", 404)
         [] error.code = "P2003" ->
              HttpException("Foreign key constraint failed", 400)
         [] OTHER -> HttpException("Database error occurred", 500)
  ELSE error

\* What the caller is sent for a value thrown out of a handler: an
\* HttpException gives its status and message, anything else is answered
\* 500 and its content is not sent.
ExceptionsHandler(thrown) ==
  IF thrown.class = "HttpException"
  THEN Outcome(thrown.status, thrown.message)
  ELSE Outcome(500, "Internal server error")

\* ---------------------------------------------------- requests being served
\* A handler runs from one await to the next without interruption; between
\* two awaits other requests run.  A call is a request on its way: pc names
\* the await it stands at ("idle": no request yet, "done": answered), seen
\* is what its reads returned, thrown the value its try block threw, out its
\* answer.
Calls == 1..MaxCalls
NoOutcome == Outcome(0, "")
Call(op, pc, tok, user, arg, seen, thrown, out) ==
  [op |-> op, pc |-> pc, tok |-> tok, user |-> user, arg |-> arg,
   seen |-> seen, thrown |-> thrown, out |-> out]
IdleCall == Call("none", "idle", NoToken, NULL, NULL, NULL, NoError, NoOutcome)
\* requests take the calls in order
Arrives(p) ==
  /\ calls[p].pc = "idle"
  /\ \A q \in Calls : q < p => calls[q].pc # "idle"

\* ------------------------------------------------------------- MailService
\* The constructor starts initializeTransporter and does not wait for it:
\* the transporter is undefined while it runs ("initializing") and for good
\* when createTestAccount fails ("failed").
\*
\* sendWelcomeEmail / sendPostCreatedEmail, called without await: the call
\* runs up to its first await.  With no transporter, sendMail throws inside
\* the try and the catch logs it; with one, the send is under way when the
\* call returns.  The caller gets a promise it drops.
sendEmail_Awaited(t) ==
  [state |-> IF t = "ready" THEN "sent" ELSE "failed", attempts |-> 1]
sendEmail(t) ==
  [state |-> IF t = "ready" THEN "sending" ELSE "failed", attempts |-> 1]
\* the send ends: the result is logged, a failure is logged and dropped
settle(mail, ok) ==
  [state |-> IF ok THEN "sent" ELSE "failed", attempts |-> mail.attempts]
WelcomeEmail(userId) == <<"welcome", userId>>
PostCreatedEmail(postId) == <<"postCreated", postId>>

\* -------------------------------------------------------------------- Init
Init ==
  /\ users = << >>
  /\ jwtRefreshSecretSet \in BOOLEAN
  /\ jwtModuleSecret \in (IF jwtRefreshSecretSet THEN {AccessSecret} ELSE ModuleSecrets)
  /\ now = 0
  /\ ticks = 0
  /\ issued = {}
  /\ posts = << >>
  /\ nextPostId = 1
  /\ replies = << >>
  /\ nextReplyId = 1
  /\ transporter = "initializing"
  /\ mails = << >>
  /\ last = Response("boot", 0, "", NULL, NoToken, NULL)
  /\ calls = [p \in Calls |-> IdleCall]

\* ------------------------------------------------------------- AuthService
\* what register and login return: {user: {id, email, name}, ...tokens}
UserSummary_WholeRow(user, id) ==
  [id |-> id, email |-> user.email, name |-> user.name,
   password |-> user.password, refreshToken |-> user.refreshToken]
UserSummary(user, id) == [id |-> id, email |-> user.email, name |-> user.name]
AuthResponse(user, id, t) ==
  [user |-> UserSummary(user, id),
   accessToken  |-> generateAccessToken(id, user.email, t),
   refreshToken |-> generateRefreshToken(id, user.email, t)]

\* register(registerDto)
Register(email, password) ==
  LET dto == [email |-> email, password |-> password]
      name == CHOOSE n \in Names : TRUE
  IN
  /\ FindUserByEmail(email) = NULL => Len(users) < MaxUsers
  /\ IF FindUserByEmail(email) # NULL
     THEN /\ last' = Response("register", 409, "Email already exists",
                              FindUserByEmail(email), NoToken, dto)
          /\ UNCHANGED <<users, issued, mails>>
     ELSE LET id   == Len(users) + 1
              user == [email |-> email,
                       password |-> BcryptHash(PasswordString(password)),
                       name |-> name,
                       refreshToken |-> NullHash]
          IN /\ users' = updateRefreshToken(Append(users, user), id,
                            generateRefreshToken(id, email, now))
             /\ issued' = issued \cup {Pair(id, email, now)}
             /\ mails' = (WelcomeEmail(id) :> sendEmail(transporter)) @@ mails
             /\ last' = ResponseWith("register", 201, "", id, NoToken, dto,
                                     AuthResponse(user, id, now))
  /\ UNCHANGED <<jwtRefreshSecretSet, jwtModuleSecret, now, ticks, transporter>>
  /\ UNCHANGED postVars
  /\ UNCHANGED calls

\* login(loginDto): which of its three exits is taken
LoginOutcome_NoPasswordCheck(email, password) ==
  IF FindUserByEmail(email) = NULL THEN "no user" ELSE "ok"
LoginOutcome(email, password) ==
  IF FindUserByEmail(email) = NULL THEN "no user"
  ELSE IF ~ BcryptCompare(PasswordString(password),
                          users[FindUserByEmail(email)].password)
       THEN "wrong password"
  ELSE "ok"

Login(email, password) ==
  LET u   == FindUserByEmail(email)
      dto == [email |-> email, password |-> password]
  IN
  /\ IF LoginOutcome(email, password) = "ok"
     THEN /\ users' = updateRefreshToken(users, u,
                         generateRefreshToken(u, users[u].email, now))
          /\ issued' = issued \cup {Pair(u, users[u].email, now)}
          /\ last' = ResponseWith("login", 200, "", u, NoToken, dto,
                                  AuthResponse(users[u], u, now))
     ELSE /\ last' = Response("login", 401, "Invalid credentials", u, NoToken, dto)
          /\ UNCHANGED <<users, issued>>
  /\ UNCHANGED <<jwtRefreshSecretSet, jwtModuleSecret, now, ticks>>
  /\ UNCHANGED postVars
  /\ UNCHANGED mailVars
  /\ UNCHANGED calls

\* refreshToken(refreshToken): which exit is taken.  Every exception raised
\* inside the try block, the three Unauthorized ones included, is replaced
\* by the one of the catch.
RefreshOutcome_NoHashCheck(tok) ==
  IF ~ JwtVerify(tok, RefreshVerifySecret, now) THEN "verify failed"
  ELSE IF FindUserById(tok.sub) = NULL THEN "Access denied"
  ELSE "ok"
RefreshOutcome(tok) ==
  IF ~ JwtVerify(tok, RefreshVerifySecret, now) THEN "verify failed"
  ELSE IF FindUserById(tok.sub) = NULL THEN "Access denied"
  ELSE IF users[tok.sub].refreshToken = NullHash THEN "Access denied"
  ELSE IF ~ BcryptCompare(JwtString(tok), users[tok.sub].refreshToken)
       THEN "Invalid refresh token"
  ELSE "ok"

\* the catch of refreshToken: whatever was thrown, one exception leaves
RefreshFailure_Rethrows(cause) == Outcome(401, cause)
RefreshFailure(cause) == Outcome(401, "Invalid or expired refresh token")

RefreshToken(tok) ==
  /\ IF RefreshOutcome(tok) = "ok"
     THEN LET u == tok.sub
          IN /\ users' = updateRefreshToken(users, u,
                            generateRefreshToken(u, users[u].email, now))
             /\ issued' = issued \cup {Pair(u, users[u].email, now)}
             /\ last' = Response("refresh", 200, "", u, tok, NULL)
     ELSE /\ last' = Response("refresh", RefreshFailure(RefreshOutcome(tok)).status,
                              RefreshFailure(RefreshOutcome(tok)).msg,
                              NULL, tok, NULL)
          /\ UNCHANGED <<users, issued>>
  /\ UNCHANGED <<jwtRefreshSecretSet, jwtModuleSecret, now, ticks>>
  /\ UNCHANGED postVars
  /\ UNCHANGED mailVars
  /\ UNCHANGED calls

\* JwtAuthGuard and JwtStrategy: the bearer token is verified with the
\* access secret, then validate(payload) looks the user up.  The result is
\* req.user.userId, NULL when the request is answered 401.
NoCredential == NoToken
JwtAuthGuard_ChecksSession(tok) ==
  IF tok = NoCredential THEN NULL
  ELSE IF ~ JwtVerify(tok, AccessSecret, now) THEN NULL
  ELSE IF FindUserById(tok.sub) = NULL THEN NULL
  ELSE IF users[tok.sub].refreshToken = NullHash THEN NULL
  ELSE tok.sub
JwtAuthGuard_NoLookup(tok) ==
  IF tok = NoCredential THEN NULL
  ELSE IF ~ JwtVerify(tok, AccessSecret, now) THEN NULL
  ELSE tok.sub
JwtAuthGuard(tok) ==
  IF tok = NoCredential THEN NULL
  ELSE IF ~ JwtVerify(tok, AccessSecret, now) THEN NULL
  ELSE FindUserById(tok.sub)

\* logout(userId)
logout_KeepsHash(us, userId) == us
logout(us, userId) == [us EXCEPT ![userId].refreshToken = NullHash]

\* POST /auth/logout, behind the guard
Logout(tok) ==
  LET userId == JwtAuthGuard(tok)
  IN
  /\ IF userId = NULL
     THEN /\ last' = Response("logout", 401, "Unauthorized", NULL, tok, NULL)
          /\ UNCHANGED users
     ELSE /\ users' = logout(users, userId)
          /\ last' = Response("logout", 200, "Logged out successfully",
                              userId, tok, NULL)
  /\ UNCHANGED <<jwtRefreshSecretSet, jwtModuleSecret, now, ticks, issued>>
  /\ UNCHANGED postVars
  /\ UNCHANGED mailVars
  /\ UNCHANGED calls

\* the clock advances by d seconds
Tick(d) ==
  /\ ticks < MaxTicks
  /\ now' = now + d
  /\ ticks' = ticks + 1
  /\ last' = Response("tick", 0, "", NULL, NoToken, d)
  /\ UNCHANGED <<users, jwtRefreshSecretSet, jwtModuleSecret, issued>>
  /\ UNCHANGED postVars
  /\ UNCHANGED mailVars
  /\ UNCHANGED calls

\* Tokens a client can present: the ones it was given, under either role,
\* and a token it made up itself (signed with a key of its own).
Forged == Token("attacker", 1, 1, now, RefreshTtl)
Malformed == Token("malformed", NULL, NULL, 0, 0)
RefreshTokens == {RefreshTokenOf(p) : p \in issued}
AccessTokens  == {AccessTokenOf(p) : p \in issued}
Presentable   == RefreshTokens \cup AccessTokens \cup {Forged}
Credentials   == Presentable \cup {NoCredential}

NextAuth ==
  \/ \E e \in Emails, p \in Passwords : Register(e, p)
  \/ \E e \in Emails, p \in Passwords : Login(e, p)
  \/ \E t \in Presentable \cup {Malformed} : RefreshToken(t)
  \/ \E t \in Credentials : Logout(t)
  \/ \E d \in TickSteps : Tick(d)

SpecAuth == Init /\ [][NextAuth]_vars

\* the deployment of .env.test: JWT_REFRESH_SECRET is set
InitConfigured == Init /\ jwtRefreshSecretSet

\* ------------------------------------------------------------ PostsService
CreateDtos == [title : Titles, content : Contents, published : BOOLEAN]
\* UpdatePostDto: every field is optional; present names the fields sent
\* (a field that is not sent is written with its first value, so that one
\* request body is one record)
UpdateDtos ==
  {d \in [present : {{}, {"title"}, {"published"}, {"title", "content", "published"}},
          title : Titles, content : Contents, published : BOOLEAN] :
     /\ "title" \notin d.present => d.title = 1
     /\ "content" \notin d.present => d.content = 1
     /\ "published" \notin d.present => d.published = FALSE}
PostIds  == 1..MaxPosts
ReplyIds == 1..MaxReplies

\* A request body: the fields of the DTO and, when authorId is not NULL, a
\* property authorId, which neither DTO declares.
CreateBody(dto, authorId) ==
  [title |-> dto.title, content |-> dto.content, published |-> dto.published,
   authorId |-> authorId]
UpdateBody(dto, authorId) ==
  [present |-> dto.present, title |-> dto.title, content |-> dto.content,
   published |-> dto.published, authorId |-> authorId]
ClaimedAuthors == {NULL} \cup (1..MaxUsers)
CreateBodies == {CreateBody(dto, a) : dto \in CreateDtos, a \in ClaimedAuthors}
UpdateBodies == {UpdateBody(dto, a) : dto \in UpdateDtos, a \in ClaimedAuthors}

\* ValidationPipe({whitelist: true, forbidNonWhitelisted: true}): a body
\* with a property its DTO does not declare is answered 400
ValidationPipe_AllowsUnknown(body) == Outcome(200, "")
ValidationPipe(body) ==
  IF body.authorId # NULL
  THEN Outcome(400, "property authorId should not exist")
  ELSE Outcome(200, "")

\* create(userId, createPostDto): data is {...createPostDto, authorId: userId}
create_AuthorFromBody(userId, body) ==
  [authorId |-> body.authorId, title |-> body.title, content |-> body.content,
   published |-> body.published]
create(userId, body) ==
  [authorId |-> userId, title |-> body.title, content |-> body.content,
   published |-> body.published]

\* db.post.update({where: {id}, data: updatePostDto}): fields sent overwrite
ApplyUpdate(post, dto) ==
  [authorId  |-> IF dto.authorId # NULL THEN dto.authorId ELSE post.authorId,
   title     |-> IF "title" \in dto.present THEN dto.title ELSE post.title,
   content   |-> IF "content" \in dto.present THEN dto.content ELSE post.content,
   published |-> IF "published" \in dto.present THEN dto.published
                 ELSE post.published]

\* db.post.findMany({skip, take, orderBy: {createdAt: 'desc'}}): post ids
\* grow with creation time
RECURSIVE NewestFirst(_)
NewestFirst(ids) ==
  IF ids = {} THEN << >>
  ELSE LET m == CHOOSE i \in ids : \A j \in ids : j <= i
       IN <<m>> \o NewestFirst(ids \ {m})
findMany(skip, take) ==
  LET all == NewestFirst(DOMAIN posts)
      to  == IF skip + take < Len(all) THEN skip + take ELSE Len(all)
  IN SubSeq(all, skip + 1, to)

\* Math.ceil(total / limit) for limit >= 1
Ceil(total, limit) == (total + limit - 1) \div limit

\* findAll(page, limit, search) without a search text.  The store refuses
\* a negative skip; the exception is not a known request error, so it is
\* re-thrown and answered 500.
findAll_SkipWholePages(page, limit) ==
  [status |-> 200, msg |-> "",
   body |-> [posts |-> findMany(page * limit, limit),
             total |-> Cardinality(DOMAIN posts),
             page |-> page, limit |-> limit,
             totalPages |-> Ceil(Cardinality(DOMAIN posts), limit)]]
findAll(page, limit) ==
  LET skip == (page - 1) * limit
  IN IF skip < 0
     THEN [status |-> 500, msg |-> "Internal server error", body |-> NoBody]
     ELSE [status |-> 200, msg |-> "",
           body |-> [posts |-> findMany(skip, limit),
                     total |-> Cardinality(DOMAIN posts),
                     page |-> page, limit |-> limit,
                     totalPages |-> Ceil(Cardinality(DOMAIN posts), limit)]]

\* findOne(id)
findOne(id) ==
  IF id \notin DOMAIN posts THEN Outcome(404, "Post not found")
  ELSE Outcome(200, "")

\* update(id, userId, updatePostDto)
update_NoOwnerCheck(id, userId, dto) ==
  IF id \notin DOMAIN posts THEN Outcome(404, "Post not found")
  ELSE Outcome(200, "")
update(id, userId, dto) ==
  IF id \notin DOMAIN posts THEN Outcome(404, "Post not found")
  ELSE IF posts[id].authorId # userId
       THEN Outcome(403, "You can only update your own posts")
  ELSE Outcome(200, "")

\* remove(id, userId)
remove_OwnerCheckFirst(id, userId) ==
  IF id \notin DOMAIN posts \/ posts[id].authorId # userId
  THEN Outcome(403, "You can only delete your own posts")
  ELSE Outcome(200, "Post deleted successfully")
remove(id, userId) ==
  IF id \notin DOMAIN posts THEN Outcome(404, "Post not found")
  ELSE IF posts[id].authorId # userId
       THEN Outcome(403, "You can only delete your own posts")
  ELSE Outcome(200, "Post deleted successfully")

\* createReply(postId, content, userId)
createReply_NoPostCheck(postId, content, userId) == Outcome(201, "")
createReply(postId, content, userId) ==
  IF postId \notin DOMAIN posts THEN Outcome(404, "Post not found")
  ELSE Outcome(201, "")

\* deleteReply(replyId, userId)
deleteReply_PostOwnerToo(replyId, userId) ==
  IF replyId \notin DOMAIN replies THEN Outcome(404, "Reply not found")
  ELSE IF /\ replies[replyId].authorId # userId
          /\ ~ (/\ replies[replyId].postId \in DOMAIN posts
                /\ posts[replies[replyId].postId].authorId = userId)
       THEN Outcome(403, "You can only delete your own replies")
  ELSE Outcome(200, "Reply deleted successfully")
deleteReply(replyId, userId) ==
  IF replyId \notin DOMAIN replies THEN Outcome(404, "Reply not found")
  ELSE IF replies[replyId].authorId # userId
       THEN Outcome(403, "You can only delete your own replies")
  ELSE Outcome(200, "Reply deleted successfully")

Unauthorized == Outcome(401, "Unauthorized")

\* ---------------------------------------------------------- PostsController
\* POST /posts
CreatePost(tok, body) ==
  LET userId == JwtAuthGuard(tok)
      out    == IF userId = NULL THEN Unauthorized ELSE ValidationPipe(body)
  IN
  /\ out.status = 200 => nextPostId <= MaxPosts
  /\ IF out.status # 200
     THEN /\ last' = Response("createPost", out.status, out.msg, userId, tok, NULL)
          /\ UNCHANGED <<posts, nextPostId, mails>>
     ELSE /\ posts' = posts @@ (nextPostId :> create(userId, body))
          /\ nextPostId' = nextPostId + 1
          /\ mails' = mails @@ (PostCreatedEmail(nextPostId) :> sendEmail(transporter))
          /\ last' = Response("createPost", 201, "", userId, tok, nextPostId)
  /\ UNCHANGED <<replies, nextReplyId, transporter>>
  /\ UNCHANGED authVars
  /\ UNCHANGED calls

\* GET /posts?page=&limit=
FindAll(page, limit) ==
  /\ last' = ResponseWith("findAll", findAll(page, limit).status,
                          findAll(page, limit).msg, NULL, NoToken,
                          [page |-> page, limit |-> limit],
                          findAll(page, limit).body)
  /\ UNCHANGED postVars
  /\ UNCHANGED mailVars
  /\ UNCHANGED authVars
  /\ UNCHANGED mailVars
  /\ UNCHANGED calls

\* include: {author: {select: {id, email, name}}}
AuthorSummary(userId) == UserSummary(users[userId], userId)
\* what findOne returns of a post: its author and the authors of its replies
PostWithAuthors(id) ==
  [author  |-> AuthorSummary(posts[id].authorId),
   replies |-> [r \in {x \in DOMAIN replies : replies[x].postId = id} |->
                  AuthorSummary(replies[r].authorId)]]

\* GET /posts/:id
FindOne(id) ==
  /\ last' = ResponseWith("findOne", findOne(id).status, findOne(id).msg,
                          NULL, NoToken, id,
                          IF findOne(id).status = 200 THEN PostWithAuthors(id)
                          ELSE NoBody)
  /\ UNCHANGED postVars
  /\ UNCHANGED mailVars
  /\ UNCHANGED authVars
  /\ UNCHANGED mailVars
  /\ UNCHANGED calls

\* PATCH /posts/:id
UpdatePost(tok, id, dto) ==
  LET userId == JwtAuthGuard(tok)
      out    == IF userId = NULL THEN Unauthorized
                ELSE IF ValidationPipe(dto).status # 200 THEN ValidationPipe(dto)
                ELSE update(id, userId, dto)
  IN
  /\ posts' = IF out.status = 200
              THEN [posts EXCEPT ![id] = ApplyUpdate(posts[id], dto)]
              ELSE posts
  /\ last' = Response("updatePost", out.status, out.msg, userId, tok, id)
  /\ UNCHANGED <<nextPostId, replies, nextReplyId>>
  /\ UNCHANGED authVars
  /\ UNCHANGED mailVars
  /\ UNCHANGED calls

\* DELETE /posts/:id.  What the store does with the replies of a deleted
\* post is decided by the schema: they go with the post or stay behind.
RepliesOf(id) == {r \in DOMAIN replies : replies[r].postId = id}

DeletePost(tok, id, cascade) ==
  LET userId == JwtAuthGuard(tok)
      out    == IF userId = NULL THEN Unauthorized ELSE remove(id, userId)
  IN
  /\ posts' = IF out.status = 200 THEN Without(posts, {id}) ELSE posts
  /\ replies' = IF out.status = 200 /\ cascade
                THEN Without(replies, RepliesOf(id))
                ELSE replies
  /\ last' = Response("deletePost", out.status, out.msg, userId, tok, id)
  /\ UNCHANGED <<nextPostId, nextReplyId>>
  /\ UNCHANGED authVars
  /\ UNCHANGED mailVars
  /\ UNCHANGED calls

\* POST /posts/:id/reply
CreateReply(tok, id, content) ==
  LET userId == JwtAuthGuard(tok)
      out    == IF userId = NULL THEN Unauthorized
                ELSE createReply(id, content, userId)
  IN
  /\ out.status = 201 => nextReplyId <= MaxReplies
  /\ IF out.status = 201
     THEN /\ replies' = replies @@ (nextReplyId :>
                           [postId |-> id, authorId |-> userId, content |-> content])
          /\ nextReplyId' = nextReplyId + 1
     ELSE UNCHANGED <<replies, nextReplyId>>
  /\ last' = Response("createReply", out.status, out.msg, userId, tok, id)
  /\ UNCHANGED <<posts, nextPostId>>
  /\ UNCHANGED authVars
  /\ UNCHANGED mailVars
  /\ UNCHANGED calls

\* deleteReply(@Param('postId'), @Param('replyId'), @Req()): the
\* controller hands replyId and the acting user to the service
deleteReplyRoute_ChecksPost(postId, replyId, userId) ==
  IF replyId \in DOMAIN replies /\ replies[replyId].postId # postId
  THEN Outcome(404, "Reply not found")
  ELSE deleteReply(replyId, userId)
deleteReplyRoute(postId, replyId, userId) == deleteReply(replyId, userId)

\* DELETE /posts/:postId/reply/:replyId
DeleteReply(tok, postId, replyId) ==
  LET userId == JwtAuthGuard(tok)
      out    == IF userId = NULL THEN Unauthorized
                ELSE deleteReplyRoute(postId, replyId, userId)
  IN
  /\ replies' = IF out.status = 200 THEN Without(replies, {replyId})
                ELSE replies
  /\ last' = Response("deleteReply", out.status, out.msg, userId, tok, replyId)
  /\ UNCHANGED <<posts, nextPostId, nextReplyId>>
  /\ UNCHANGED authVars
  /\ UNCHANGED mailVars
  /\ UNCHANGED calls

\* The post and reply flows start with MaxUsers accounts registered at time
\* 0, user i with e-mail i and password 1: the state Init reaches through
\* Register(1, 1), Register(2, 1), ...
RECURSIVE Registered(_)
Registered(n) ==
  IF n = 0 THEN << >>
  ELSE updateRefreshToken(
         Append(Registered(n - 1),
                [email |-> n, password |-> BcryptHash(PasswordString(1)),
                 name |-> 1, refreshToken |-> NullHash]),
         n, generateRefreshToken(n, n, 0))

InitPosts ==
  /\ jwtRefreshSecretSet = TRUE
  /\ jwtModuleSecret = AccessSecret
  /\ users = Registered(MaxUsers)
  /\ now = 0
  /\ ticks = 0
  /\ issued = {Pair(u, u, 0) : u \in 1..MaxUsers}
  /\ posts = << >>
  /\ nextPostId = 1
  /\ replies = << >>
  /\ nextReplyId = 1
  /\ transporter = "initializing"
  /\ mails = [k \in {WelcomeEmail(u) : u \in 1..MaxUsers} |-> sendEmail("initializing")]
  /\ last = ResponseWith("register", 201, "", MaxUsers, NoToken,
                         [email |-> MaxUsers, password |-> 1],
                         AuthResponse(users[MaxUsers], MaxUsers, 0))
  /\ calls = [p \in Calls |-> IdleCall]

NextPosts ==
  \/ \E t \in Credentials : Logout(t)
  \/ Tick(AccessTtl)
  \/ \E t \in Credentials, dto \in CreateDtos : CreatePost(t, CreateBody(dto, NULL))
  \/ FindAll(1, 10)
  \/ \E id \in PostIds : FindOne(id)
  \/ \E t \in Credentials, id \in PostIds, dto \in UpdateDtos :
        UpdatePost(t, id, UpdateBody(dto, NULL))
  \/ \E t \in Credentials, id \in PostIds, c \in BOOLEAN : DeletePost(t, id, c)
  \/ \E t \in Credentials, id \in PostIds, c \in Contents : CreateReply(t, id, c)
  \/ \E t \in Credentials, pid \in PostIds, rid \in ReplyIds : DeleteReply(t, pid, rid)

SpecPosts == InitPosts /\ [][NextPosts]_vars

\* The content of posts and replies: request bodies with and without a
\* property the DTO does not declare, every page of the list, and as
\* credentials the access tokens of the registered users or none.
Pages  == 0..MaxPage
Limits == {1, 2, 10}
Bearers == AccessTokens \cup {NoCredential}

NextContent ==
  \/ \E t \in Bearers, body \in CreateBodies : CreatePost(t, body)
  \/ \E page \in Pages, limit \in Limits : FindAll(page, limit)
  \/ \E id \in PostIds : FindOne(id)
  \/ \E t \in Bearers, id \in PostIds, body \in UpdateBodies :
        UpdatePost(t, id, body)
  \/ \E t \in Bearers, id \in PostIds, c \in BOOLEAN : DeletePost(t, id, c)
  \/ \E t \in Bearers, id \in PostIds, c \in Contents : CreateReply(t, id, c)
  \/ \E t \in Bearers, pid \in PostIds, rid \in ReplyIds : DeleteReply(t, pid, rid)

SpecContent == InitPosts /\ [][NextContent]_vars

\* ------------------------------------------------- MailService at run time
\* initializeTransporter ends: the transporter is set, or the failure logged
InitializeTransporter(ok) ==
  /\ transporter = "initializing"
  /\ transporter' = IF ok THEN "ready" ELSE "failed"
  /\ last' = Response("initializeTransporter", 0, "", NULL, NoToken, NULL)
  /\ UNCHANGED mails
  /\ UNCHANGED authVars
  /\ UNCHANGED postVars
  /\ UNCHANGED calls

\* a send that is under way ends, well or not
SendMailEnds(key, ok) ==
  /\ key \in DOMAIN mails
  /\ mails[key].state = "sending"
  /\ mails' = [mails EXCEPT ![key] = settle(@, ok)]
  /\ last' = Response("sendMail", 0, "", NULL, NoToken, NULL)
  /\ UNCHANGED transporter
  /\ UNCHANGED authVars
  /\ UNCHANGED postVars
  /\ UNCHANGED calls

MailKeys == {WelcomeEmail(u) : u \in 1..MaxUsers}
              \cup {PostCreatedEmail(i) : i \in PostIds}

NextMail ==
  \/ \E ok \in BOOLEAN : InitializeTransporter(ok)
  \/ \E e \in Emails, p \in Passwords : Register(e, p)
  \/ \E t \in Bearers, dto \in CreateDtos : CreatePost(t, CreateBody(dto, NULL))
  \/ \E k \in MailKeys, ok \in BOOLEAN : SendMailEnds(k, ok)

SpecMail == InitConfigured /\ [][NextMail]_vars

\* ------------------------------------------------- the store, from outside
\* prisma.reply.deleteMany(); prisma.post.deleteMany();
\* prisma.user.deleteMany(): the tables are emptied; the tokens clients hold
\* stay with them
CleanDatabase ==
  /\ users' = << >>
  /\ posts' = << >>
  /\ replies' = << >>
  /\ last' = Response("cleanDatabase", 0, "", NULL, NoToken, NULL)
  /\ UNCHANGED <<jwtRefreshSecretSet, jwtModuleSecret, now, ticks, issued>>
  /\ UNCHANGED <<nextPostId, nextReplyId>>
  /\ UNCHANGED mailVars
  /\ UNCHANGED calls

NextStore ==
  \/ \E e \in Emails, p \in Passwords : Register(e, p)
  \/ \E e \in Emails, p \in Passwords : Login(e, p)
  \/ \E t \in Credentials : Logout(t)
  \/ CleanDatabase
  \/ Tick(AccessTtl)

SpecStore == InitConfigured /\ [][NextStore]_vars

\* ----------------------------------------------------------- TestController
\* a row of the User table as findMany returns it, every column
UserRow(id) ==
  [id |-> id, email |-> users[id].email, password |-> users[id].password,
   name |-> users[id].name, refreshToken |-> users[id].refreshToken]

\* GET /test/users, no guard: { success: true, count, users }
TestUsers ==
  LET n == IF Len(users) < TestTake THEN Len(users) ELSE TestTake
  IN
  /\ last' = ResponseWith("testUsers", 200, "", NULL, NoToken, NULL,
                          [success |-> TRUE, count |-> n,
                           users |-> [i \in 1..n |-> UserRow(i)]])
  /\ UNCHANGED authVars
  /\ UNCHANGED postVars
  /\ UNCHANGED mailVars
  /\ UNCHANGED calls

\* the routes of AppModule that answer with users or their summaries
NextApp ==
  \/ \E e \in Emails, p \in Passwords : Register(e, p)
  \/ \E e \in Emails, p \in Passwords : Login(e, p)
  \/ \E t \in AccessTokens, dto \in CreateDtos : CreatePost(t, CreateBody(dto, NULL))
  \/ \E t \in AccessTokens, id \in PostIds, c \in Contents : CreateReply(t, id, c)
  \/ \E id \in PostIds : FindOne(id)
  \/ TestUsers

SpecApp == InitConfigured /\ [][NextApp]_vars

\* ------------------------------------------------ what a try block throws
\* The request errors of the store by code, with and without meta.target;
\* the exceptions the services throw inside their try blocks; errors of
\* other classes, one of them carrying a code property.
PrismaCodes == {"P2002", "P2025", "P2003", "P2000", "P2034"}
Targets == {"email", NoTarget}
TryBlockExceptions ==
  {HttpException("Email already exists", 409),
   HttpException("Post not found", 404),
   HttpException("Reply not found", 404),
   HttpException("You can only update your own posts", 403),
   HttpException("You can only delete your own posts", 403),
   HttpException("You can only delete your own replies", 403)}
ThrownValues ==
  {KnownRequestError(c, t) : c \in PrismaCodes, t \in Targets}
    \cup TryBlockExceptions
    \cup {OtherError("PrismaClientValidationError", ""),
          OtherError("PrismaClientUnknownRequestError", ""),
          OtherError("TypeError", ""),
          OtherError("Error", "P2002")}

\* try { ... } throws e
Throw(p, e) ==
  /\ calls[p].pc \in {"idle", "done"}
  /\ calls' = [calls EXCEPT ![p] =
                 Call("try", "catch", NoToken, NULL, NULL, NULL, e, NoOutcome)]
  /\ UNCHANGED last
  /\ UNCHANGED authVars
  /\ UNCHANGED postVars
  /\ UNCHANGED mailVars

\* catch (error) { handlePrismaError(error); }: seen keeps the value caught,
\* thrown is the value that leaves the handler
Catch(p) ==
  /\ calls[p].pc = "catch"
  /\ LET thrown == handlePrismaError(calls[p].thrown)
         out    == ExceptionsHandler(thrown)
     IN /\ calls' = [calls EXCEPT ![p] =
                       Call("try", "done", NoToken, NULL, NULL,
                            calls[p].thrown, thrown, out)]
        /\ last' = Response("try", out.status, out.msg, NULL, NoToken, NULL)
  /\ UNCHANGED authVars
  /\ UNCHANGED postVars
  /\ UNCHANGED mailVars

InitErrors ==
  /\ users = << >>
  /\ jwtRefreshSecretSet = TRUE
  /\ jwtModuleSecret = AccessSecret
  /\ now = 0
  /\ ticks = 0
  /\ issued = {}
  /\ posts = << >>
  /\ nextPostId = 1
  /\ replies = << >>
  /\ nextReplyId = 1
  /\ transporter = "initializing"
  /\ mails = << >>
  /\ \E e \in ThrownValues :
       calls = [p \in Calls |->
                  IF p = 1
                  THEN Call("try", "catch", NoToken, NULL, NULL, NULL, e, NoOutcome)
                  ELSE IdleCall]
  /\ last = Response("boot", 0, "", NULL, NoToken, NULL)

NextErrors ==
  \/ \E e \in ThrownValues : Throw(1, e)
  \/ Catch(1)

SpecErrors == InitErrors /\ [][NextErrors]_vars

\* ------------------------------------- PostsService, one await after another
\* update, remove and createReply await findUnique, then await the write.
\* The exceptions of the checks and the errors of the write are thrown
\* inside the try block and pass through handlePrismaError.
PostArg(id, body) == [id |-> id, body |-> body]
Answered(p, op, tok, user, arg, seen, thrown, out) ==
  /\ calls' = [calls EXCEPT ![p] = Call(op, "done", tok, user, arg, seen, thrown, out)]
  /\ last' = Response(op, out.status, out.msg, user, tok, arg.id)
\* a check threw out inside the try block
Rejected(out) == handlePrismaError(HttpException(out.msg, out.status))
\* the write of a row the store no longer has
RecordNotFound == KnownRequestError("P2025", NoTarget)
\* the write of a row that refers to a row the store no longer has
ForeignKeyFailed == KnownRequestError("P2003", NoTarget)

\* PATCH /posts/:id up to the await of db.post.update
UpdateCheck(p, tok, id, dto) ==
  LET userId == JwtAuthGuard(tok)
      arg    == PostArg(id, dto)
  IN
  /\ Arrives(p)
  /\ IF userId = NULL
     THEN Answered(p, "updatePost", tok, userId, arg, NULL, NoError, Unauthorized)
     ELSE IF ValidationPipe(dto).status # 200
     THEN Answered(p, "updatePost", tok, userId, arg, NULL, NoError,
                   ValidationPipe(dto))
     ELSE IF update(id, userId, dto).status # 200
     THEN Answered(p, "updatePost", tok, userId, arg, NULL,
                   Rejected(update(id, userId, dto)),
                   ExceptionsHandler(Rejected(update(id, userId, dto))))
     ELSE /\ calls' = [calls EXCEPT ![p] =
                         Call("updatePost", "write", tok, userId, arg,
                              NULL, NoError, NoOutcome)]
          /\ UNCHANGED last
  /\ UNCHANGED authVars
  /\ UNCHANGED postVars
  /\ UNCHANGED mailVars

\* db.post.update returns
UpdateWrite(p) ==
  LET c  == calls[p]
      id == c.arg.id
  IN
  /\ c.pc = "write" /\ c.op = "updatePost"
  /\ IF id \in DOMAIN posts
     THEN /\ posts' = [posts EXCEPT ![id] = ApplyUpdate(posts[id], c.arg.body)]
          /\ Answered(p, c.op, c.tok, c.user, c.arg, c.seen, NoError,
                      Outcome(200, ""))
     ELSE /\ posts' = posts
          /\ Answered(p, c.op, c.tok, c.user, c.arg, c.seen,
                      handlePrismaError(RecordNotFound),
                      ExceptionsHandler(handlePrismaError(RecordNotFound)))
  /\ UNCHANGED <<nextPostId, replies, nextReplyId>>
  /\ UNCHANGED authVars
  /\ UNCHANGED mailVars

\* DELETE /posts/:id up to the await of db.post.delete
RemoveCheck(p, tok, id) ==
  LET userId == JwtAuthGuard(tok)
      arg    == PostArg(id, NULL)
  IN
  /\ Arrives(p)
  /\ IF userId = NULL
     THEN Answered(p, "deletePost", tok, userId, arg, NULL, NoError, Unauthorized)
     ELSE IF remove(id, userId).status # 200
     THEN Answered(p, "deletePost", tok, userId, arg, NULL,
                   Rejected(remove(id, userId)),
                   ExceptionsHandler(Rejected(remove(id, userId))))
     ELSE /\ calls' = [calls EXCEPT ![p] =
                         Call("deletePost", "write", tok, userId, arg,
                              NULL, NoError, NoOutcome)]
          /\ UNCHANGED last
  /\ UNCHANGED authVars
  /\ UNCHANGED postVars
  /\ UNCHANGED mailVars

\* db.post.delete returns
RemoveWrite(p, cascade) ==
  LET c  == calls[p]
      id == c.arg.id
  IN
  /\ c.pc = "write" /\ c.op = "deletePost"
  /\ IF id \in DOMAIN posts
     THEN /\ posts' = Without(posts, {id})
          /\ replies' = IF cascade THEN Without(replies, RepliesOf(id))
                        ELSE replies
          /\ Answered(p, c.op, c.tok, c.user, c.arg, c.seen, NoError,
                      remove(id, c.user))
     ELSE /\ UNCHANGED <<posts, replies>>
          /\ Answered(p, c.op, c.tok, c.user, c.arg, c.seen,
                      handlePrismaError(RecordNotFound),
                      ExceptionsHandler(handlePrismaError(RecordNotFound)))
  /\ UNCHANGED <<nextPostId, nextReplyId>>
  /\ UNCHANGED authVars
  /\ UNCHANGED mailVars

\* POST /posts/:id/reply up to the await of db.reply.create
CreateReplyCheck(p, tok, id, content) ==
  LET userId == JwtAuthGuard(tok)
      arg    == PostArg(id, content)
  IN
  /\ Arrives(p)
  /\ IF userId = NULL
     THEN Answered(p, "createReply", tok, userId, arg, NULL, NoError, Unauthorized)
     ELSE IF createReply(id, content, userId).status # 201
     THEN Answered(p, "createReply", tok, userId, arg, NULL,
                   Rejected(createReply(id, content, userId)),
                   ExceptionsHandler(Rejected(createReply(id, content, userId))))
     ELSE /\ calls' = [calls EXCEPT ![p] =
                         Call("createReply", "write", tok, userId, arg,
                              NULL, NoError, NoOutcome)]
          /\ UNCHANGED last
  /\ UNCHANGED authVars
  /\ UNCHANGED postVars
  /\ UNCHANGED mailVars

\* db.reply.create returns.  With the post gone, a store that enforces the
\* reference of a reply to its post (fk) refuses the row; one that does not
\* enforce it takes the row.
CreateReplyWrite(p, fk) ==
  LET c  == calls[p]
      id == c.arg.id
  IN
  /\ c.pc = "write" /\ c.op = "createReply"
  /\ IF id \in DOMAIN posts \/ ~fk
     THEN /\ nextReplyId <= MaxThreadReplies
          /\ replies' = replies @@ (nextReplyId :>
                          [postId |-> id, authorId |-> c.user,
                           content |-> c.arg.body])
          /\ nextReplyId' = nextReplyId + 1
          /\ Answered(p, c.op, c.tok, c.user, c.arg, c.seen, NoError,
                      Outcome(201, ""))
     ELSE /\ UNCHANGED <<replies, nextReplyId>>
          /\ Answered(p, c.op, c.tok, c.user, c.arg, c.seen,
                      handlePrismaError(ForeignKeyFailed),
                      ExceptionsHandler(handlePrismaError(ForeignKeyFailed)))
  /\ UNCHANGED <<posts, nextPostId>>
  /\ UNCHANGED authVars
  /\ UNCHANGED mailVars

\* DELETE /posts/:postId/reply/:replyId up to the await of db.reply.delete;
\* arg is the route, seen the reply findUnique returned
DeleteReplyCheck(p, tok, postId, replyId) ==
  LET userId == JwtAuthGuard(tok)
      arg    == PostArg(postId, replyId)
      out    == IF userId = NULL THEN Unauthorized
                ELSE deleteReplyRoute(postId, replyId, userId)
  IN
  /\ Arrives(p)
  /\ IF userId = NULL
     THEN /\ calls' = [calls EXCEPT ![p] =
                         Call("deleteReply", "done", tok, userId, arg, NULL,
                              NoError, out)]
          /\ last' = Response("deleteReply", out.status, out.msg, userId, tok,
                              replyId)
     ELSE IF out.status # 200
     THEN /\ calls' = [calls EXCEPT ![p] =
                         Call("deleteReply", "done", tok, userId, arg, NULL,
                              Rejected(out), ExceptionsHandler(Rejected(out)))]
          /\ last' = Response("deleteReply", ExceptionsHandler(Rejected(out)).status,
                              ExceptionsHandler(Rejected(out)).msg, userId, tok,
                              replyId)
     ELSE /\ calls' = [calls EXCEPT ![p] =
                         Call("deleteReply", "write", tok, userId, arg,
                              replies[replyId], NoError, NoOutcome)]
          /\ UNCHANGED last
  /\ UNCHANGED authVars
  /\ UNCHANGED postVars
  /\ UNCHANGED mailVars

\* db.reply.delete returns
DeleteReplyWrite(p) ==
  LET c       == calls[p]
      replyId == c.arg.body
      out     == IF replyId \in DOMAIN replies
                 THEN Outcome(200, "Reply deleted successfully")
                 ELSE ExceptionsHandler(handlePrismaError(RecordNotFound))
  IN
  /\ c.pc = "write" /\ c.op = "deleteReply"
  /\ replies' = IF replyId \in DOMAIN replies THEN Without(replies, {replyId})
                ELSE replies
  /\ calls' = [calls EXCEPT ![p] =
                 Call(c.op, "done", c.tok, c.user, c.arg, c.seen,
                      IF replyId \in DOMAIN replies THEN NoError
                      ELSE handlePrismaError(RecordNotFound),
                      out)]
  /\ last' = Response(c.op, out.status, out.msg, c.user, c.tok, replyId)
  /\ UNCHANGED <<posts, nextPostId, nextReplyId>>
  /\ UNCHANGED authVars
  /\ UNCHANGED mailVars

\* the bodies of the requests that run side by side
RaceCreateDtos == {d \in CreateDtos : d.published}
RaceUpdateDtos == {d \in UpdateDtos : d.present = {"published"} /\ ~d.published}

NextPostsRace ==
  \/ \E t \in AccessTokens, dto \in RaceCreateDtos :
        CreatePost(t, CreateBody(dto, NULL))
  \/ \E t \in AccessTokens, id \in PostIds, c \in Contents : CreateReply(t, id, c)
  \/ \E p \in Calls, t \in AccessTokens, id \in PostIds, dto \in RaceUpdateDtos :
        UpdateCheck(p, t, id, UpdateBody(dto, NULL))
  \/ \E p \in Calls : UpdateWrite(p)
  \/ \E p \in Calls, t \in AccessTokens, id \in PostIds : RemoveCheck(p, t, id)
  \/ \E p \in Calls, c \in BOOLEAN : RemoveWrite(p, c)
  \/ \E p \in Calls, t \in AccessTokens, id \in PostIds, c \in Contents :
        CreateReplyCheck(p, t, id, c)
  \/ \E p \in Calls, fk \in BOOLEAN : CreateReplyWrite(p, fk)
  \/ \E p \in Calls, t \in AccessTokens, pid \in PostIds,
         rid \in 1..MaxThreadReplies : DeleteReplyCheck(p, t, pid, rid)
  \/ \E p \in Calls : DeleteReplyWrite(p)

SpecPostsRace == InitPosts /\ [][NextPostsRace]_vars

\* -------------------------------------- AuthService, one await after another
\* register awaits findUnique, then db.user.create, then the update of
\* updateRefreshToken; login and refreshToken await findUnique, then that
\* update.  bcrypt and the signing of the tokens are awaited in between and
\* touch no shared state.
AuthAnswered(p, op, tok, user, arg, seen, thrown, out) ==
  /\ calls' = [calls EXCEPT ![p] = Call(op, "done", tok, user, arg, seen, thrown, out)]
  /\ last' = Response(op, out.status, out.msg, user, tok, arg)

\* db.user.create({data}): e-mail is a unique field of User (it is a key of
\* findUnique), so a second row with a stored e-mail is refused with P2002
createUser_NoUniqueIndex(us, user) ==
  [error |-> NoError, rows |-> Append(us, user)]
createUser(us, user) ==
  IF \E u \in 1..Len(us) : us[u].email = user.email
  THEN [error |-> KnownRequestError("P2002", "email"), rows |-> us]
  ELSE [error |-> NoError, rows |-> Append(us, user)]

\* POST /auth/register up to the await of db.user.create
RegisterLookup(p, email, password) ==
  LET dto == [email |-> email, password |-> password]
      conflict == handlePrismaError(HttpException("Email already exists", 409))
  IN
  /\ Arrives(p)
  /\ IF FindUserByEmail(email) # NULL
     THEN AuthAnswered(p, "register", NoToken, NULL, dto, FindUserByEmail(email),
                       conflict, ExceptionsHandler(conflict))
     ELSE /\ calls' = [calls EXCEPT ![p] =
                         Call("register", "create", NoToken, NULL, dto, NULL,
                              NoError, NoOutcome)]
          /\ UNCHANGED last
  /\ UNCHANGED authVars
  /\ UNCHANGED postVars
  /\ UNCHANGED mailVars

\* db.user.create returns
RegisterCreate(p) ==
  LET c    == calls[p]
      user == [email |-> c.arg.email,
               password |-> BcryptHash(PasswordString(c.arg.password)),
               name |-> CHOOSE n \in Names : TRUE,
               refreshToken |-> NullHash]
      made == createUser(users, user)
  IN
  /\ c.pc = "create" /\ c.op = "register"
  /\ users' = made.rows
  /\ IF made.error = NoError
     THEN /\ calls' = [calls EXCEPT ![p] =
                         Call(c.op, "save", c.tok, Len(made.rows), c.arg, NULL,
                              NoError, NoOutcome)]
          /\ UNCHANGED last
     ELSE AuthAnswered(p, c.op, c.tok, NULL, c.arg, NULL,
                       handlePrismaError(made.error),
                       ExceptionsHandler(handlePrismaError(made.error)))
  /\ UNCHANGED <<jwtRefreshSecretSet, jwtModuleSecret, now, ticks, issued>>
  /\ UNCHANGED postVars
  /\ UNCHANGED mailVars

\* POST /auth/login up to the await of updateRefreshToken
LoginLookup(p, email, password) ==
  LET u   == FindUserByEmail(email)
      dto == [email |-> email, password |-> password]
  IN
  /\ Arrives(p)
  /\ IF LoginOutcome(email, password) = "ok"
     THEN /\ calls' = [calls EXCEPT ![p] =
                         Call("login", "save", NoToken, u, dto,
                              users[u].refreshToken, NoError, NoOutcome)]
          /\ UNCHANGED last
     ELSE AuthAnswered(p, "login", NoToken, u, dto, NULL,
                       HttpException("Invalid credentials", 401),
                       Outcome(401, "Invalid credentials"))
  /\ UNCHANGED authVars
  /\ UNCHANGED postVars
  /\ UNCHANGED mailVars

\* POST /auth/refresh up to the await of updateRefreshToken
RefreshLookup(p, tok) ==
  /\ Arrives(p)
  /\ IF RefreshOutcome(tok) = "ok"
     THEN /\ calls' = [calls EXCEPT ![p] =
                         Call("refresh", "save", tok, tok.sub, NULL,
                              users[tok.sub].refreshToken, NoError, NoOutcome)]
          /\ UNCHANGED last
     ELSE AuthAnswered(p, "refresh", tok, NULL, NULL, NULL,
                       HttpException(RefreshFailure(RefreshOutcome(tok)).msg,
                                     RefreshFailure(RefreshOutcome(tok)).status),
                       RefreshFailure(RefreshOutcome(tok)))
  /\ UNCHANGED authVars
  /\ UNCHANGED postVars
  /\ UNCHANGED mailVars

\* generateTokens, then the update of updateRefreshToken returns and the
\* handler answers; register hands the welcome mail to MailService first
SaveTokens(p) ==
  LET c == calls[p]
      u == c.user
  IN
  /\ c.pc = "save"
  /\ users' = updateRefreshToken(users, u,
                 generateRefreshToken(u, users[u].email, now))
  /\ issued' = issued \cup {Pair(u, users[u].email, now)}
  /\ mails' = IF c.op = "register"
              THEN (WelcomeEmail(u) :> sendEmail(transporter)) @@ mails
              ELSE mails
  /\ calls' = [calls EXCEPT ![p] =
                 Call(c.op, "done", c.tok, u, c.arg, c.seen, NoError,
                      Outcome(IF c.op = "register" THEN 201 ELSE 200, ""))]
  /\ last' = IF c.op = "refresh"
             THEN Response("refresh", 200, "", u, c.tok, NULL)
             ELSE ResponseWith(c.op, IF c.op = "register" THEN 201 ELSE 200,
                               "", u, NoToken, c.arg,
                               AuthResponse(users[u], u, now))
  /\ UNCHANGED <<jwtRefreshSecretSet, jwtModuleSecret, now, ticks, transporter>>
  /\ UNCHANGED postVars

\* The requests race over one registered account (e-mail 1, password 1,
\* registered at time 0) and one e-mail that is not stored.
InitRace ==
  /\ jwtRefreshSecretSet = TRUE
  /\ jwtModuleSecret = AccessSecret
  /\ users = Registered(1)
  /\ now = 0
  /\ ticks = 0
  /\ issued = {Pair(1, 1, 0)}
  /\ posts = << >>
  /\ nextPostId = 1
  /\ replies = << >>
  /\ nextReplyId = 1
  /\ transporter = "initializing"
  /\ mails = (WelcomeEmail(1) :> sendEmail("initializing"))
  /\ calls = [p \in Calls |-> IdleCall]
  /\ last = ResponseWith("register", 201, "", 1, NoToken,
                         [email |-> 1, password |-> 1],
                         AuthResponse(users[1], 1, 0))

NextAuthRace ==
  \/ \E p \in Calls, e \in Emails, pw \in Passwords : RegisterLookup(p, e, pw)
  \/ \E p \in Calls : RegisterCreate(p)
  \/ \E p \in Calls, e \in Emails, pw \in Passwords : LoginLookup(p, e, pw)
  \/ \E p \in Calls, t \in RefreshTokens : RefreshLookup(p, t)
  \/ \E p \in Calls : SaveTokens(p)
  \/ \E t \in AccessTokens : Logout(t)
  \/ Tick(1)

SpecAuthRace == InitRace /\ [][NextAuthRace]_vars

\* ================================================================== claims
\* An issued pair is superseded once a later pair was issued to its user.
Superseded(p) == \E q \in issued : q.sub = p.sub /\ q.iat > p.iat
\* An access token this server issued and that has not expired.
ValidAccessToken(t) == t \in AccessTokens /\ now < t.exp
\* A refresh token this server issued and that has not expired.
ValidRefreshToken(t) == t \in RefreshTokens /\ now < t.exp
HasEmail(us, e) == {u \in 1..Len(us) : us[u].email = e}
MutatingOps == {"createPost", "updatePost", "deletePost", "createReply", "deleteReply"}
\* A post id that was given out and whose post is gone.
Deleted(id) == id < nextPostId /\ id \notin DOMAIN posts

\* C1: once a newer refresh token was issued to a user, refresh rejects
\* (401) every refresh token issued to that user before.
C1_SupersededRefreshTokenRejected ==
  [][ (/\ last'.op = "refresh"
       /\ \E p \in issued : Superseded(p) /\ last'.tok = RefreshTokenOf(p))
      => last'.status = 401 ]_vars

\* C2: register answers 201 and adds exactly one user when the e-mail is
\* not stored, and answers 409 and leaves the User table alone when it is;
\* after any register call exactly one user has that e-mail.
C2_RegisterOncePerEmail ==
  [][ last'.op = "register" =>
        LET e == last'.arg.email
        IN /\ HasEmail(users, e) # {} => (last'.status = 409 /\ users' = users)
           /\ HasEmail(users, e) = {} =>
                (last'.status = 201 /\ Len(users') = Len(users) + 1)
           /\ Cardinality(HasEmail(users', e)) = 1 ]_vars
C2_Witness == last.op = "register" /\ last.status = 409 /\ Len(users) = 1

\* C3: login with the password the account was registered with answers 200
\* and issues a token pair; login with any other password, or with an e-mail
\* no account has, answers 401 "Invalid credentials" in both cases and
\* changes nothing.
C3_LoginOutcomes ==
  [][ last'.op = "login" =>
        LET e == last'.arg.email
            correct == \E u \in HasEmail(users, e) :
                         users[u].password =
                           BcryptHash(PasswordString(last'.arg.password))
        IN IF correct
           THEN /\ last'.status = 200
                /\ \E u \in HasEmail(users, e) : Pair(u, e, now) \in issued'
           ELSE /\ last'.status = 401
                /\ last'.msg = "Invalid credentials"
                /\ users' = users /\ issued' = issued ]_vars
C3_Witness ==
  /\ last.op = "login" /\ last.status = 401
  /\ HasEmail(users, last.arg.email) # {}

\* C4: refresh with an issued, unexpired refresh token answers 401 when the
\* subject has no account, the stored hash is null, or the token does not
\* match the stored hash; the User table and the issued tokens stay as
\* they were.
C4_RefreshFailureLeavesState ==
  [][ (/\ last'.op = "refresh"
       /\ ValidRefreshToken(last'.tok)
       /\ \/ last'.tok.sub \notin UserIds
          \/ users[last'.tok.sub].refreshToken = NullHash
          \/ ~ BcryptCompare(JwtString(last'.tok), users[last'.tok.sub].refreshToken))
      => (last'.status = 401 /\ users' = users /\ issued' = issued) ]_vars
C4_Witness ==
  /\ last.op = "refresh" /\ last.status = 401
  /\ jwtRefreshSecretSet
  /\ ValidRefreshToken(last.tok)
  /\ users[last.tok.sub].refreshToken = NullHash

\* C5: logout with a valid access token answers 200 "Logged out
\* successfully" and nulls the stored hash of the user; a null hash stays
\* null until a login of that user succeeds, and while it is null refresh
\* answers 401 for every token of that user.
C5_LogoutEndsRefresh ==
  [][ /\ (last'.op = "logout" /\ ValidAccessToken(last'.tok)) =>
            /\ last'.status = 200
            /\ last'.msg = "Logged out successfully"
            /\ users'[last'.tok.sub].refreshToken = NullHash
      /\ \A u \in UserIds :
            (users[u].refreshToken = NullHash /\ users'[u].refreshToken # NullHash)
            => (last'.op = "login" /\ last'.status = 200 /\ last'.user = u)
      /\ (/\ last'.op = "refresh"
          /\ last'.tok.sub \in UserIds
          /\ users[last'.tok.sub].refreshToken = NullHash)
         => last'.status = 401 ]_vars
C5_Witness ==
  /\ last.op = "refresh" /\ last.status = 401
  /\ jwtRefreshSecretSet
  /\ \E p \in issued :
        /\ last.tok = RefreshTokenOf(p) /\ ~ Superseded(p)
        /\ now < last.tok.exp
        /\ users[p.sub].refreshToken = NullHash

\* C6: an issued, unexpired access token creates a post (201) whether or not
\* its user has logged out; a logout changes the guard's decision for no
\* credential.
C6_AccessTokenSurvivesLogout ==
  [][ /\ (last'.op = "createPost" /\ ValidAccessToken(last'.tok)) =>
            (last'.status = 201 /\ last'.user = last'.tok.sub)
      /\ (last'.op = "logout" /\ last'.status = 200) =>
            \A t \in Credentials : JwtAuthGuard(t)' = JwtAuthGuard(t) ]_vars
C6_Witness ==
  /\ last.op = "createPost" /\ last.status = 201
  /\ users[last.user].refreshToken = NullHash

\* C7: on an existing post, updatePost and deletePost by the author answer
\* 200 (the post is updated, or gone); by any other user they answer 403 and
\* the Post table stays as it was.
C7_OnlyAuthorChangesPost ==
  [][ (/\ last'.op \in {"updatePost", "deletePost"}
       /\ last'.user # NULL
       /\ last'.arg \in DOMAIN posts)
      => IF posts[last'.arg].authorId = last'.user
         THEN /\ last'.status = 200
              /\ last'.op = "deletePost" => last'.arg \notin DOMAIN posts'
              /\ last'.op = "updatePost" => last'.arg \in DOMAIN posts'
         ELSE last'.status = 403 /\ posts' = posts ]_vars
C7_Witness ==
  /\ last.op = "updatePost" /\ last.status = 403
  /\ last.arg \in DOMAIN posts
  /\ posts[last.arg].authorId # last.user

\* C8: deleteReply on an existing reply answers 200 only for the reply's
\* author; any other user, the owner of the parent post included, gets 403
\* and the Reply table stays as it was.
C8_OnlyAuthorDeletesReply ==
  [][ (/\ last'.op = "deleteReply"
       /\ last'.user # NULL
       /\ last'.arg \in DOMAIN replies)
      => /\ last'.status = 200 => replies[last'.arg].authorId = last'.user
         /\ replies[last'.arg].authorId # last'.user =>
              (last'.status = 403 /\ replies' = replies) ]_vars
C8_Witness ==
  /\ last.op = "deleteReply" /\ last.status = 403
  /\ last.arg \in DOMAIN replies
  /\ replies[last.arg].postId \in DOMAIN posts
  /\ posts[replies[last.arg].postId].authorId = last.user

\* C9: createPost, updatePost, deletePost, createReply and deleteReply sent
\* without an issued, unexpired access token answer 401 and change no post
\* and no reply; findAll and findOne take no token and never answer 401.
C9_MutationsNeedAccessToken ==
  [][ /\ (last'.op \in MutatingOps /\ ~ ValidAccessToken(last'.tok)) =>
            (last'.status = 401 /\ postVars' = postVars)
      /\ last'.op = "findAll" => last'.status = 200
      /\ last'.op = "findOne" =>
            last'.status = (IF last'.arg \in DOMAIN posts THEN 200 ELSE 404) ]_vars
C9_Witness ==
  /\ last.op \in MutatingOps /\ last.status = 401
  /\ last.tok \in AccessTokens
  /\ last.arg \in DOMAIN posts

\* C10: a deletePost answered 200 removes the post; a removed post stays
\* removed, findOne on its id answers 404, and updatePost, deletePost and
\* createReply on its id answer 404 and change nothing.
C10_DeletedPostStaysDeleted ==
  [][ /\ (last'.op = "deletePost" /\ last'.status = 200) =>
            last'.arg \notin DOMAIN posts'
      /\ \A id \in PostIds : Deleted(id) => Deleted(id)'
      /\ (last'.op = "findOne" /\ Deleted(last'.arg)) => last'.status = 404
      /\ (/\ last'.op \in {"updatePost", "deletePost", "createReply"}
          /\ last'.user # NULL
          /\ Deleted(last'.arg))
         => (last'.status = 404 /\ postVars' = postVars) ]_vars
C10_Witness ==
  /\ last.op = "findOne" /\ last.status = 404
  /\ Deleted(last.arg)

\* C11: every post that appears was created by a createPost request answered
\* 201 and is owned by the user of the access token of that request,
\* whatever the body carried; a 201 always adds the post it names.
C11_PostOwnedByRequester ==
  [][ /\ \A id \in DOMAIN posts' \ DOMAIN posts :
            /\ last'.op = "createPost" /\ last'.status = 201
            /\ last'.arg = id
            /\ ValidAccessToken(last'.tok)
            /\ posts'[id].authorId = last'.tok.sub
      /\ (last'.op = "createPost" /\ last'.status = 201) =>
            last'.arg \in DOMAIN posts' \ DOMAIN posts ]_vars
C11_Witness ==
  /\ last.op = "createPost" /\ last.status = 201
  /\ last.arg \in DOMAIN posts
  /\ posts[last.arg].authorId = 2

\* C12: no step changes the authorId of a post that stays, or any field of
\* a reply that stays; an updatePost step changes at most the title, content
\* and published flag of the post it names.
C12_OwnersNeverChange ==
  [][ /\ \A id \in DOMAIN posts \cap DOMAIN posts' :
            posts'[id].authorId = posts[id].authorId
      /\ \A r \in DOMAIN replies \cap DOMAIN replies' : replies'[r] = replies[r]
      /\ last'.op = "updatePost" =>
            /\ DOMAIN posts' = DOMAIN posts
            /\ \A id \in DOMAIN posts : id # last'.arg => posts'[id] = posts[id]
            /\ replies' = replies ]_vars
C12_Witness ==
  /\ last.op = "updatePost" /\ last.status = 400
  /\ last.arg \in DOMAIN posts
  /\ posts[last.arg].authorId = last.user

\* C15: createReply by an authenticated user answers 404 and adds no reply
\* when the post does not exist; otherwise it answers 201 and adds exactly
\* one reply, whose authorId is the acting user and whose postId is the post.
C15_CreateReplyOutcome ==
  [][ (last'.op = "createReply" /\ last'.user # NULL) =>
        IF last'.arg \notin DOMAIN posts
        THEN last'.status = 404 /\ replies' = replies
        ELSE /\ last'.status = 201
             /\ \E r \in DOMAIN replies' \ DOMAIN replies :
                   /\ DOMAIN replies' = DOMAIN replies \cup {r}
                   /\ replies'[r].authorId = last'.user
                   /\ replies'[r].postId = last'.arg
             /\ \A q \in DOMAIN replies : replies'[q] = replies[q] ]_vars
C15_Witness ==
  /\ last.op = "createReply" /\ last.status = 404
  /\ last.user # NULL
  /\ last.arg \notin DOMAIN posts

\* What the list answers for the page and limit it was asked: total = N,
\* page and limit as sent, min(limit, max(0, N - (page-1)*limit)) posts and
\* totalPages = ceil(N / limit).
ListsPage ==
  LET N     == Cardinality(DOMAIN posts)
      page  == last'.arg.page
      limit == last'.arg.limit
      rest  == IF N - (page - 1) * limit > 0 THEN N - (page - 1) * limit ELSE 0
  IN /\ last'.status = 200
     /\ last'.body.total = N
     /\ last'.body.page = page /\ last'.body.limit = limit
     /\ Len(last'.body.posts) = (IF limit < rest THEN limit ELSE rest)
     /\ last'.body.totalPages * limit >= N
     /\ (last'.body.totalPages - 1) * limit < N

\* C16 as stated: the list answers so whatever page and limit are.
C16_ListsAnyPage == [][ last'.op = "findAll" => ListsPage ]_vars
\* C16: for integers page >= 1 and limit >= 1 the list answers total = N,
\* page and limit as sent, min(limit, max(0, N - (page-1)*limit)) posts and
\* totalPages = ceil(N / limit).
C16_ListsPositivePage ==
  [][ (last'.op = "findAll" /\ last'.arg.page >= 1 /\ last'.arg.limit >= 1)
      => ListsPage ]_vars
C16_Witness ==
  /\ last.op = "findAll" /\ last.status = 200
  /\ last.arg.page = 2 /\ last.arg.limit = 1
  /\ Len(last.body.posts) = 1 /\ last.body.total = 2

\* C13: register of a new e-mail answers 201 and createPost with a valid
\* access token answers 201 whatever the state of the mail transport; the
\* response is given while the send is still under way (or has already
\* failed for want of a transporter); every notification is attempted once:
\* a send that ended is never started again.
C13_MailNeverDecidesRequest ==
  [][ /\ last'.op = "register" =>
            /\ last'.status = (IF HasEmail(users, last'.arg.email) = {} THEN 201 ELSE 409)
            /\ last'.status = 201 =>
                  mails'[WelcomeEmail(last'.user)].state =
                    (IF transporter = "ready" THEN "sending" ELSE "failed")
      /\ (last'.op = "createPost" /\ ValidAccessToken(last'.tok)) =>
            /\ last'.status = 201
            /\ PostCreatedEmail(last'.arg) \in DOMAIN mails' \ DOMAIN mails
            /\ mails'[PostCreatedEmail(last'.arg)].state =
                 (IF transporter = "ready" THEN "sending" ELSE "failed")
      /\ \A k \in DOMAIN mails :
            /\ k \in DOMAIN mails'
            /\ mails[k].state # "sending" => mails'[k] = mails[k]
      /\ \A k \in DOMAIN mails' : mails'[k].attempts = 1 ]_vars
C13_Witness ==
  /\ last.op = "register" /\ last.status = 201
  /\ transporter = "failed"
  /\ mails[WelcomeEmail(last.user)].state = "failed"

\* C14: the body of a successful register or login is {user, accessToken,
\* refreshToken} with user = {id, email, name} of the account and the two
\* tokens just issued; the password hash and the refresh-token hash of the
\* account are no part of it.
C14_AuthResponseHasNoHash ==
  [][ (last'.op \in {"register", "login"} /\ last'.status \in {200, 201}) =>
        LET u == last'.user
        IN /\ DOMAIN last'.body = {"user", "accessToken", "refreshToken"}
           /\ DOMAIN last'.body.user = {"id", "email", "name"}
           /\ last'.body.user.id = u
           /\ last'.body.user.email = users'[u].email
           /\ last'.body.user.name = users'[u].name
           /\ last'.body.accessToken = AccessTokenOf(Pair(u, users'[u].email, now))
           /\ last'.body.refreshToken = RefreshTokenOf(Pair(u, users'[u].email, now)) ]_vars
C14_Witness ==
  /\ last.op = "login" /\ last.status = 200
  /\ last.body.user.id = last.user
  /\ users[last.user].password # NullHash
  /\ users[last.user].refreshToken # NullHash

\* C17: a refresh that does not succeed answers 401 "Invalid or expired
\* refresh token", whether the token is malformed, badly signed, expired,
\* of no user, of a logged-out user or not matching the stored hash.
C17_RefreshFailsOneWay ==
  [][ (last'.op = "refresh" /\ last'.status # 200) =>
        /\ last'.status = 401
        /\ last'.msg = "Invalid or expired refresh token"
        /\ last'.body = NoBody ]_vars
C17_Witness ==
  /\ last.op = "refresh" /\ last.status = 401
  /\ last.tok \in {Malformed, Forged}

C19_VerificationPathsDisjoint ==
  [][ /\ (last'.op = "logout" /\ last'.tok \in RefreshTokens) => last'.status = 401
      /\ (last'.op = "refresh" /\ last'.tok \in AccessTokens) => last'.status = 401 ]_vars

\* C20: a Bearer credential is accepted only less than 15 minutes after its
\* iat and a refresh token only less than 7 days after its iat; refresh with
\* an issued refresh token whose 7 days have passed answers 401, also when
\* the token matches the stored hash.
C20_TokensExpireOnTheClock ==
  [][ /\ (last'.op = "logout" /\ last'.status = 200) =>
            now - last'.tok.iat < AccessTtl
      /\ (last'.op = "refresh" /\ last'.status = 200) =>
            now - last'.tok.iat < RefreshTtl
      /\ (/\ last'.op = "refresh"
          /\ last'.tok \in RefreshTokens
          /\ now - last'.tok.iat >= RefreshTtl)
         => last'.status = 401 ]_vars
C20_Witness ==
  /\ last.op = "refresh" /\ last.status = 401
  /\ last.tok \in RefreshTokens
  /\ now - last.tok.iat >= RefreshTtl
  /\ BcryptCompare(JwtString(last.tok), users[last.tok.sub].refreshToken)

\* C21: updatePost, deletePost and deleteReply by an authenticated user look
\* the resource up before they compare owners: on an absent post or reply
\* the answer is 404 whoever asks, 403 is answered only when the resource
\* exists and belongs to another user, and 200 only when it exists and
\* belongs to the acting user.
Resource(op) == IF op = "deleteReply" THEN replies ELSE posts
C21_ExistenceBeforeOwnership ==
  [][ (/\ last'.op \in {"updatePost", "deletePost", "deleteReply"}
       /\ last'.user # NULL
       /\ last'.status # 400)
      => LET table == Resource(last'.op)
             id    == last'.arg
         IN /\ last'.status \in {404, 403, 200}
            /\ id \notin DOMAIN table => last'.status = 404
            /\ last'.status = 403 =>
                 (id \in DOMAIN table /\ table[id].authorId # last'.user)
            /\ last'.status = 200 =>
                 (id \in DOMAIN table /\ table[id].authorId = last'.user) ]_vars
C21_Witness ==
  /\ last.op = "deletePost" /\ last.status = 404
  /\ last.user # NULL
  /\ posts # << >>
  /\ \A id \in DOMAIN posts : posts[id].authorId # last.user

\* C22: handlePrismaError always throws: for a known request error of the
\* store an HttpException with 409 for code P2002, 404 for P2025, 400 for
\* P2003 and 500 for every other code; every other value, the NotFound,
\* Forbidden and Conflict exceptions of the try blocks included, is thrown
\* again as it was caught.
C22_HandlePrismaErrorMapping ==
  [][ \A p \in Calls :
        (calls[p].pc = "catch" /\ calls'[p].pc = "done") =>
          LET error  == calls[p].thrown
              thrown == calls'[p].thrown
          IN /\ thrown.class # "none"
             /\ IF error.class = "PrismaClientKnownRequestError"
                THEN /\ thrown.class = "HttpException"
                     /\ thrown.status =
                          (CASE error.code = "P2002" -> 409
                             [] error.code = "P2025" -> 404
                             [] error.code = "P2003" -> 400
                             [] OTHER -> 500)
                ELSE thrown = error ]_vars
C22_Witness ==
  /\ calls[1].pc = "done" /\ calls[1].op = "try"
  /\ calls[1].seen = HttpException("Post not found", 404)
  /\ calls[1].thrown = calls[1].seen
  /\ last.status = 404

\* C23: when updatePost, deletePost and createReply on one post run side by
\* side and the post goes between the check of one and its write, every
\* caller is answered success or an error of the taxonomy (400, 403, 404,
\* 409, 500) thrown as an HttpException; no error of the store leaves a
\* handler as it is, and of two deletePost calls on one post at most one is
\* answered success.
PostOps == {"updatePost", "deletePost", "createReply"}
TaxonomyErrors == {400, 403, 404, 409, 500}
C23_RacesEndInTaxonomy ==
  /\ \A p \in Calls :
       (calls[p].pc = "done" /\ calls[p].op \in PostOps) =>
         \/ calls[p].thrown = NoError /\ calls[p].out.status \in {200, 201}
         \/ /\ calls[p].thrown.class = "HttpException"
            /\ calls[p].out.status = calls[p].thrown.status
            /\ calls[p].out.status \in TaxonomyErrors
  /\ \A p, q \in Calls :
       (/\ p # q
        /\ calls[p].pc = "done" /\ calls[p].op = "deletePost"
        /\ calls[q].pc = "done" /\ calls[q].op = "deletePost"
        /\ calls[p].arg.id = calls[q].arg.id)
       => ~ (calls[p].out.status = 200 /\ calls[q].out.status = 200)
C23_Witness ==
  /\ calls[1].pc = "done" /\ calls[1].op = "deletePost"
  /\ calls[2].pc = "done" /\ calls[2].op = "deletePost"
  /\ calls[1].arg.id = calls[2].arg.id
  /\ calls[1].out = Outcome(404, "Record not found")
  /\ calls[2].out.status = 200

\* C24: however register calls with one e-mail interleave their lookup and
\* their create, at most one user has that e-mail in every state; every
\* such call is answered 201 or 409, and once all of them are answered
\* exactly one was answered 201 when the e-mail was not stored before them.
RegisterCalls(e) ==
  {p \in Calls : calls[p].op = "register" /\ calls[p].arg.email = e}
StoredAtStart == {Registered(1)[u].email : u \in 1..1}
C24_OneRegisterWins ==
  \A e \in Emails :
    LET won == {p \in RegisterCalls(e) : calls[p].out.status = 201}
    IN /\ Cardinality(HasEmail(users, e)) <= 1
       /\ \A p \in RegisterCalls(e) :
            calls[p].pc = "done" => calls[p].out.status \in {201, 409}
       /\ Cardinality(won) <= 1
       /\ (/\ e \notin StoredAtStart
           /\ RegisterCalls(e) # {}
           /\ \A p \in RegisterCalls(e) : calls[p].pc = "done")
          => Cardinality(won) = 1
C24_Witness ==
  /\ calls[1].pc = "done" /\ calls[1].op = "register"
  /\ calls[2].pc = "done" /\ calls[2].op = "register"
  /\ calls[1].arg.email = calls[2].arg.email
  /\ calls[1].out = Outcome(409, "Duplicate field value: email")
  /\ calls[2].out.status = 201

\* C25: a refresh token is redeemed at most once: of two refresh calls that
\* present the same token, side by side or one after the other, at most one
\* is answered a new token pair.
C25_RefreshTokenRedeemedOnce ==
  \A p, q \in Calls :
    (/\ p # q
     /\ calls[p].pc = "done" /\ calls[p].op = "refresh"
     /\ calls[q].pc = "done" /\ calls[q].op = "refresh"
     /\ calls[p].tok = calls[q].tok)
    => ~ (calls[p].out.status = 200 /\ calls[q].out.status = 200)

\* A user whose hash a logout cleared: tokens were issued to the user, and
\* nothing but logout clears the hash that was stored with them.
LoggedOut(u) ==
  /\ users[u].refreshToken = NullHash
  /\ \E pair \in issued : pair.sub = u
\* call p returns from updateRefreshToken in this step
Saves(p) == calls[p].pc = "save" /\ calls'[p].pc = "done"

\* C26 as stated: once logout(u) has completed, the stored hash of u stays
\* null until a login of u that started after the logout succeeds; a
\* refresh or login that was in flight when the logout ran does not set it.
C26_HashNullUntilLaterLogin ==
  [][ \A u \in 1..Len(users) :
        (LoggedOut(u) /\ users'[u].refreshToken # NullHash) =>
          \E p \in Calls :
            /\ Saves(p)
            /\ calls[p].user = u
            /\ calls[p].op = "login"
            /\ calls[p].seen = NullHash ]_vars

\* C26: once logout(u) has completed, the stored hash of u stays null until
\* a register, login or refresh of u returns from updateRefreshToken; a
\* refresh reaches updateRefreshToken only after it read a stored hash, so a
\* refresh that starts after the logout does not set the hash, and one that
\* had read the hash before the logout does (the last write wins).
C26_HashNullUntilNextWrite ==
  [][ /\ \A u \in 1..Len(users) :
           (LoggedOut(u) /\ users'[u].refreshToken # NullHash) =>
             \E p \in Calls :
               /\ Saves(p)
               /\ calls[p].user = u
               /\ calls[p].op \in {"register", "login", "refresh"}
      /\ \A p \in Calls :
           (calls'[p].op = "refresh" /\ calls'[p].pc = "save") =>
             calls'[p].seen # NullHash
      /\ \A p \in Calls :
           (/\ calls'[p].op = "refresh" /\ calls'[p].pc = "done"
            /\ calls[p].pc = "idle"
            /\ calls'[p].tok.sub \in 1..Len(users)
            /\ LoggedOut(calls'[p].tok.sub))
           => calls'[p].out.status = 401 ]_vars
C26_Witness ==
  /\ last.op = "logout" /\ last.status = 200
  /\ \E p \in Calls :
       /\ calls[p].op = "refresh" /\ calls[p].pc = "save"
       /\ calls[p].user = last.user
       /\ LoggedOut(last.user)

\* C27: the stored refresh-token hash matches only the token it was computed
\* from: a refresh token of the same user issued at another time does not
\* compare equal to it.
C27_HashMatchesExactToken ==
  \A p, q \in issued :
    (/\ p.sub = q.sub /\ p.iat # q.iat
     /\ q.sub \in 1..Len(users)
     /\ users[q.sub].refreshToken = BcryptHash(JwtString(RefreshTokenOf(q))))
    => ~ BcryptCompare(JwtString(RefreshTokenOf(p)), users[q.sub].refreshToken)

\* C28: in every configuration, without JWT_REFRESH_SECRET too, a refresh
\* token returned by register, login or refresh passes the signature
\* verification of refresh: it is verified with the secret that signed it.
C28_RefreshVerifiedWithSigningSecret ==
  \A p \in issued :
    /\ RefreshTokenOf(p).secret = RefreshVerifySecret
    /\ JwtVerify(RefreshTokenOf(p), RefreshVerifySecret, p.iat)

\* C29: no response carries a stored password hash or refresh-token hash:
\* the user of a register or login response and the author summaries of a
\* post and of its replies have the fields id, email and name only, and no
\* route answers with rows of the User table.
SummaryFields == {"id", "email", "name"}
C29_NoHashInAnyResponse ==
  /\ (last.op \in {"register", "login"} /\ last.status \in {200, 201}) =>
        DOMAIN last.body.user = SummaryFields
  /\ (last.op = "findOne" /\ last.status = 200) =>
        /\ DOMAIN last.body.author = SummaryFields
        /\ \A r \in DOMAIN last.body.replies :
             DOMAIN last.body.replies[r] = SummaryFields
  /\ last.op = "testUsers" =>
        \A i \in DOMAIN last.body.users :
          DOMAIN last.body.users[i] \cap {"password", "refreshToken"} = {}

\* C30: the delete-reply route decides by the reply id and the acting user
\* alone; the post id of the route is not compared with the post of the
\* reply.  Whatever post the route names: an absent reply is answered 404,
\* the reply of another user 403, and the acting user's own reply is
\* deleted, also when it belongs to another post than the one named, with
\* every other reply and every post left as they were.
C30_DeleteReplyIgnoresPostId ==
  [][ \A p \in Calls :
        LET c == calls'[p]
            r == c.arg.body
        IN
        /\ (calls[p].pc = "idle" /\ c.op = "deleteReply" /\ c.user # NULL) =>
              /\ postVars' = postVars
              /\ IF r \notin DOMAIN replies
                 THEN c.pc = "done" /\ c.out.status = 404
                 ELSE IF replies[r].authorId # c.user
                 THEN c.pc = "done" /\ c.out.status = 403
                 ELSE c.pc = "write" /\ c.seen = replies[r]
        /\ (calls[p].pc = "write" /\ c.pc = "done" /\ c.op = "deleteReply"
            /\ r \in DOMAIN replies) =>
              /\ c.out.status = 200
              /\ replies' = [x \in DOMAIN replies \ {r} |-> replies[x]]
              /\ posts' = posts ]_vars
C30_Witness ==
  \E p \in Calls :
    /\ calls[p].op = "deleteReply" /\ calls[p].pc = "done"
    /\ calls[p].out.status = 200
    /\ calls[p].arg.id \in DOMAIN posts
    /\ calls[p].seen.postId \in DOMAIN posts
    /\ calls[p].seen.postId # calls[p].arg.id
    /\ replies # << >>

====
